---------------------------- MODULE Spec2Model ----------------------------
(***************************************************************************)
(* Model of the two coordinators of the repository and the rules and       *)
(* processors they compose:                                                *)
(*   - CheckoutService.run_checkout        (refactor_solid.py)             *)
(*   - RegistrationService.validate_registration and the rules             *)
(*     SksLimitRule, PrerequisiteRule, JadwalBentrokRule                   *)
(*     (student_registration_refactored.py)                                *)
(* A Python str that the code inspects character by character (a course's  *)
(* schedule) is a sequence of one-character strings; a dict is a record    *)
(* whose keys may be absent.                                               *)
(***************************************************************************)
EXTENDS Integers, Sequences, FiniteSets, TLC

VARIABLES
    \* ---- checkout (refactor_solid.py) ----
    order,            \* the Order instance handed to run_checkout
    processor,        \* the IPaymentProcessor injected in CheckoutService
    pc,               \* position inside run_checkout ("idle" between calls)
    payment_success,  \* local of run_checkout (line 159)
    ret,              \* value returned by the last finished run_checkout
    events,           \* calls made by the current/last invocation, in order
    orderAtStart,     \* the order as it was when the invocation started
    invocations,      \* number of run_checkout calls started so far
    \* ---- registration (student_registration_refactored.py) ----
    rules,            \* RegistrationService.rules
    student_data,     \* the dict handed to validate_registration
    rpc,              \* position inside validate_registration
    idx,              \* 1-based position of the for loop over self.rules
    outcome,          \* (is_valid, message) of the last rule.validate call
    evaluated,        \* positions of the rules whose validate was called
    log,              \* records emitted through LOGGER
    result            \* value returned by validate_registration

checkoutVars == <<order, processor, pc, payment_success, ret, events,
                  orderAtStart, invocations>>
regVars == <<rules, student_data, rpc, idx, outcome, evaluated, log, result>>
vars == <<order, processor, pc, payment_success, ret, events, orderAtStart,
          invocations, rules, student_data, rpc, idx, outcome, evaluated,
          log, result>>

\* Python's None, where a value of another type is not compared with it.
None == "None"

(***************************************************************************)
(*                       refactor_solid.py : checkout                      *)
(***************************************************************************)

\* Bound: how many times run_checkout is invoked on the one order.
MaxCheckouts == 3

\* @dataclass Order; status defaults to "open".
Order(customer_name, total_price) ==
    [customer_name |-> customer_name, total_price |-> total_price,
     status |-> "open"]

\* The orders the callers build (Andi 500000, Budi 100000).
Orders == {Order("Andi", 500000), Order("Budi", 100000)}

\* The injected processors: the two concrete ones, and any other
\* implementation of the IPaymentProcessor contract (process -> bool).
Processors == {"CreditCardProcessor", "QrisProcessor", "IPaymentProcessor"}

\* CreditCardProcessor.process: always True.
CreditCardProcess(o) == {TRUE}

\* QrisProcessor.process: always True.
QrisProcess(o) == {TRUE}

\* IPaymentProcessor.process: the contract only fixes the result type.
AbstractProcess(o) == BOOLEAN

\* self.payment_processor.process(order): the results the call may give.
Process(p, o) ==
    CASE p = "CreditCardProcessor" -> CreditCardProcess(o)
      [] p = "QrisProcessor" -> QrisProcess(o)
      [] OTHER -> AbstractProcess(o)

\* order.status = "paid"
SetPaid(o) == [o EXCEPT !.status = "paid"]

\* The registration side at rest.
RegIdle ==
    /\ rules = <<>>
    /\ student_data = [name |-> "Budi"]
    /\ rpc = "idle"
    /\ idx = 1
    /\ outcome = None
    /\ evaluated = <<>>
    /\ log = <<>>
    /\ result = None

InitCheckout ==
    /\ order \in Orders
    /\ processor \in Processors
    /\ pc = "idle"
    /\ payment_success = FALSE
    /\ ret = None
    /\ events = <<>>
    /\ orderAtStart = order
    /\ invocations = 0
    /\ RegIdle

\* run_checkout, lines 157-159: log the start, delegate to the processor.
CallProcessor ==
    /\ pc = "idle"
    /\ invocations < MaxCheckouts
    /\ \E r \in Process(processor, order) : payment_success' = r
    /\ invocations' = invocations + 1
    /\ orderAtStart' = order
    /\ events' = <<"process">>
    /\ ret' = None
    /\ pc' = "branch"
    /\ UNCHANGED <<order, processor>>
    /\ UNCHANGED regVars

\* Mutant of MarkPaid: the branch does not test payment_success.
MarkPaidUnchecked ==
    /\ pc = "branch"
    /\ order' = SetPaid(order)
    /\ events' = Append(events, "set_paid")
    /\ pc' = "notify"
    /\ UNCHANGED <<processor, payment_success, ret, orderAtStart, invocations>>
    /\ UNCHANGED regVars

\* run_checkout, lines 161-162: success branch, mark the order paid.
MarkPaid ==
    /\ pc = "branch"
    /\ payment_success
    /\ order' = SetPaid(order)
    /\ events' = Append(events, "set_paid")
    /\ pc' = "notify"
    /\ UNCHANGED <<processor, payment_success, ret, orderAtStart, invocations>>
    /\ UNCHANGED regVars

\* run_checkout, line 163: self.notifier.send(order); the event keeps the
\* status the notifier sees.
Notify ==
    /\ pc = "notify"
    /\ events' = Append(events, "send:" \o order.status)
    /\ pc' = "return_true"
    /\ UNCHANGED <<order, processor, payment_success, ret, orderAtStart,
                   invocations>>
    /\ UNCHANGED regVars

\* run_checkout, lines 164-165.
ReturnTrue ==
    /\ pc = "return_true"
    /\ ret' = TRUE
    /\ pc' = "idle"
    /\ UNCHANGED <<order, processor, payment_success, events, orderAtStart,
                   invocations>>
    /\ UNCHANGED regVars

\* Mutant of ReturnFalse: the failure branch marks the order failed.
ReturnFalseMarksFailed ==
    /\ pc = "branch"
    /\ ~payment_success
    /\ order' = [order EXCEPT !.status = "failed"]
    /\ ret' = FALSE
    /\ pc' = "idle"
    /\ UNCHANGED <<processor, payment_success, events, orderAtStart,
                   invocations>>
    /\ UNCHANGED regVars

\* run_checkout, lines 166-168: failure branch.
ReturnFalse ==
    /\ pc = "branch"
    /\ ~payment_success
    /\ ret' = FALSE
    /\ pc' = "idle"
    /\ UNCHANGED <<order, processor, payment_success, events, orderAtStart,
                   invocations>>
    /\ UNCHANGED regVars

NextCheckout ==
    \/ CallProcessor
    \/ MarkPaid
    \/ Notify
    \/ ReturnTrue
    \/ ReturnFalse

SpecCheckout == InitCheckout /\ [][NextCheckout]_vars

\* An invocation has run to its return.
CheckoutReturned == pc = "idle" /\ invocations > 0

\* C2: a run_checkout call on an open order calls the processor exactly
\* once; if the processor returned True the call returns True, the order is
\* paid and the notifier was sent to exactly once, after the status was set
\* (it sees "paid"); if the processor returned False the call returns
\* False, the order is exactly as it was (status "open") and the notifier
\* was not called.
C2_RunCheckoutOutcome ==
    (CheckoutReturned /\ orderAtStart.status = "open") =>
        IF payment_success
        THEN /\ ret = TRUE
             /\ order = [orderAtStart EXCEPT !.status = "paid"]
             /\ events = <<"process", "set_paid", "send:paid">>
        ELSE /\ ret = FALSE
             /\ order = orderAtStart
             /\ order.status = "open"
             /\ events = <<"process">>

\* C2 witness: a second call on a still open order (so the first call was
\* declined and returned) has succeeded and returned.
C2_Witness ==
    /\ CheckoutReturned
    /\ invocations = 2
    /\ orderAtStart.status = "open"
    /\ ret = TRUE
    /\ order.status = "paid"

\* C3: over any sequence of run_checkout calls on an order that starts
\* open, the status is always "open" or "paid"; the only change of status
\* is open -> paid, inside a call whose processor returned True; a paid
\* order stays paid.
C3_StatusMachine ==
    /\ [](order.status \in {"open", "paid"})
    /\ [][order.status' # order.status =>
            /\ order.status = "open"
            /\ order.status' = "paid"
            /\ pc = "branch"
            /\ payment_success]_vars
    /\ [][order.status = "paid" => order.status' = "paid"]_vars

\* C3 witness: a call on an already paid order was declined and has
\* returned, and the order is still paid.
C3_Witness ==
    /\ CheckoutReturned
    /\ orderAtStart.status = "paid"
    /\ ~payment_success
    /\ ret = FALSE
    /\ order.status = "paid"

(***************************************************************************)
(*        student_registration_refactored.py : Python str and dict         *)
(***************************************************************************)

Min(a, b) == IF a < b THEN a ELSE b

\* dict.get(key, default)
Get(d, key, default) == IF key \in DOMAIN d THEN d[key] ELSE default

\* The decimal digits, and the value of one.
Digits == <<"0", "1", "2", "3", "4", "5", "6", "7", "8", "9">>
IsDigit(c) == \E i \in 1..Len(Digits) : Digits[i] = c
DigitVal(c) == (CHOOSE i \in 1..Len(Digits) : Digits[i] = c) - 1

\* `c in s` for a one-character c.
Contains(s, c) == \E i \in 1..Len(s) : s[i] = c

\* s.split(c, 1): the parts around the first c, or the whole of s.
SplitOnce(s, c) ==
    IF Contains(s, c)
    THEN LET k == CHOOSE i \in 1..Len(s) :
                      s[i] = c /\ \A j \in 1..(i - 1) : s[j] # c
         IN  <<SubSeq(s, 1, k - 1), SubSeq(s, k + 1, Len(s))>>
    ELSE <<s>>

\* s.strip(): without the leading and trailing blanks.
Strip(s) ==
    LET solid == {i \in 1..Len(s) : s[i] # " "}
    IN  IF solid = {} THEN <<>>
        ELSE LET lo == CHOOSE i \in solid : \A j \in solid : i <= j
                 hi == CHOOSE i \in solid : \A j \in solid : j <= i
             IN  SubSeq(s, lo, hi)

\* s[a:b], 0-based and clamped to the length of s.
Slice(s, a, b) == SubSeq(s, a + 1, Min(b, Len(s)))

\* The value of a run of digits, most significant first.
RECURSIVE DigitsValue(_)
DigitsValue(s) ==
    IF s = <<>> THEN 0
    ELSE 10 * DigitsValue(SubSeq(s, 1, Len(s) - 1)) + DigitVal(s[Len(s)])

\* int(s): blanks around the text and one sign are accepted, then digits
\* only; anything else raises ValueError (ok = FALSE).
IntOf(s) ==
    LET t == Strip(s)
        signed == t # <<>> /\ t[1] \in {"+", "-"}
        body == IF signed THEN SubSeq(t, 2, Len(t)) ELSE t
    IN  IF body # <<>> /\ \A i \in 1..Len(body) : IsDigit(body[i])
        THEN [ok |-> TRUE,
              val |-> IF signed /\ t[1] = "-" THEN 0 - DigitsValue(body)
                      ELSE DigitsValue(body)]
        ELSE [ok |-> FALSE, val |-> 0]

\* int(t[:2]) * 60 + int(t[3:5]) (lines 121-124); ok = FALSE when either
\* int() raises.
Minutes(t) ==
    LET h == IntOf(Slice(t, 0, 2))
        m == IntOf(Slice(t, 3, 5))
    IN  IF h.ok /\ m.ok THEN [ok |-> TRUE, val |-> h.val * 60 + m.val]
        ELSE [ok |-> FALSE, val |-> 0]

(***************************************************************************)
(*                               the rules                                 *)
(***************************************************************************)

\* SksLimitRule.validate
SksTotal(courses) ==
    LET RECURSIVE Sum(_)
        Sum(k) == IF k = 0 THEN 0 ELSE Sum(k - 1) + Get(courses[k], "sks", 0)
    IN  Sum(Len(courses))

\* Mutant of SksLimitValidate: the limit itself is already too much.
SksLimitValidateInclusive(max_sks, data) ==
    LET courses == Get(data, "courses", <<>>)
        total_sks == SksTotal(courses)
    IN  IF total_sks >= max_sks
        THEN [ok |-> FALSE,
              msg |-> [text |-> "Total SKS melebihi batas maksimal",
                       total_sks |-> total_sks, max_sks |-> max_sks]]
        ELSE [ok |-> TRUE, msg |-> [text |-> "SKS valid"]]

SksLimitValidate(max_sks, data) ==
    LET courses == Get(data, "courses", <<>>)
        total_sks == SksTotal(courses)
    IN  IF total_sks > max_sks
        THEN [ok |-> FALSE,
              msg |-> [text |-> "Total SKS melebihi batas maksimal",
                       total_sks |-> total_sks, max_sks |-> max_sks]]
        ELSE [ok |-> TRUE, msg |-> [text |-> "SKS valid"]]

\* `if prereq`: None and the empty string are falsy.
Truthy(v) == v # None /\ v # ""

\* Mutant of PrerequisiteValidate: the loop returns after its first course.
PrerequisiteValidateFirstOnly(data) ==
    LET done == Get(data, "completed_courses", <<>>)
        completed_courses == {done[i].code : i \in 1..Len(done)}
        courses == Get(data, "courses", <<>>)
        prereq == Get(courses[1], "prerequisite", None)
    IN  IF courses # <<>> /\ Truthy(prereq)
           /\ prereq \notin completed_courses
        THEN [ok |-> FALSE,
              msg |-> [text |-> "Prasyarat tidak terpenuhi",
                       prereq |-> prereq, code |-> courses[1].code]]
        ELSE [ok |-> TRUE, msg |-> [text |-> "Prasyarat terpenuhi"]]

\* Mutant of PrerequisiteValidate: the prerequisite is looked up among the
\* courses being taken instead of the completed ones.
PrerequisiteValidateAmongTaken(data) ==
    LET courses == Get(data, "courses", <<>>)
        taken == {courses[i].code : i \in 1..Len(courses)}
        RECURSIVE Loop(_)
        Loop(k) ==
            IF k > Len(courses)
            THEN [ok |-> TRUE, msg |-> [text |-> "Prasyarat terpenuhi"]]
            ELSE LET prereq == Get(courses[k], "prerequisite", None)
                 IN  IF Truthy(prereq) /\ prereq \notin taken
                     THEN [ok |-> FALSE,
                           msg |-> [text |-> "Prasyarat tidak terpenuhi",
                                    prereq |-> prereq,
                                    code |-> courses[k].code]]
                     ELSE Loop(k + 1)
    IN  Loop(1)

\* PrerequisiteRule.validate
PrerequisiteValidate(data) ==
    LET done == Get(data, "completed_courses", <<>>)
        completed_courses == {done[i].code : i \in 1..Len(done)}
        courses == Get(data, "courses", <<>>)
        RECURSIVE Loop(_)
        Loop(k) ==
            IF k > Len(courses)
            THEN [ok |-> TRUE, msg |-> [text |-> "Prasyarat terpenuhi"]]
            ELSE LET prereq == Get(courses[k], "prerequisite", None)
                 IN  IF Truthy(prereq) /\ prereq \notin completed_courses
                     THEN [ok |-> FALSE,
                           msg |-> [text |-> "Prasyarat tidak terpenuhi",
                                    prereq |-> prereq,
                                    code |-> courses[k].code]]
                     ELSE Loop(k + 1)
    IN  Loop(1)

\* JadwalBentrokRule.validate, lines 104-113: the entries kept in
\* `schedules`, in the order of the courses.
ScheduleEntry(course) ==
    LET sched == Get(course, "schedule", <<>>)
    IN  IF sched # <<>> /\ Contains(sched, " ") /\ Contains(sched, "-")
        THEN LET parts == SplitOnce(sched, " ")
                 day == parts[1]
                 time_part == parts[2]
             IN  IF Contains(time_part, "-")
                 THEN LET se == SplitOnce(time_part, "-")
                      IN  <<[day |-> day, start |-> Strip(se[1]),
                             end |-> Strip(se[2]), code |-> course.code]>>
                 ELSE <<>>
        ELSE <<>>

RECURSIVE ParseSchedules(_)
ParseSchedules(courses) ==
    IF courses = <<>> THEN <<>>
    ELSE ScheduleEntry(Head(courses)) \o ParseSchedules(Tail(courses))

\* Mutant of Bentrok: intervals that only touch count as overlapping.
BentrokClosed(a, b) ==
    /\ a.day = b.day
    /\ LET s1 == Minutes(a.start)
           e1 == Minutes(a.end)
           s2 == Minutes(b.start)
           e2 == Minutes(b.end)
       IN  /\ s1.ok /\ e1.ok /\ s2.ok /\ e2.ok
           /\ s1.val <= e2.val
           /\ s2.val <= e1.val

\* Lines 119-128 for one pair: the days are equal, the four times convert
\* (otherwise the except clause continues) and the intervals overlap.
Bentrok(a, b) ==
    /\ a.day = b.day
    /\ LET s1 == Minutes(a.start)
           e1 == Minutes(a.end)
           s2 == Minutes(b.start)
           e2 == Minutes(b.end)
       IN  /\ s1.ok /\ e1.ok /\ s2.ok /\ e2.ok
           /\ s1.val < e2.val
           /\ s2.val < e1.val

\* Mutant of JadwalBentrokValidate: only neighbouring entries are compared.
JadwalBentrokValidateNeighbours(data) ==
    LET schedules == ParseSchedules(Get(data, "courses", <<>>))
        n == Len(schedules)
        RECURSIVE Scan(_)
        Scan(i) ==
            IF i >= n
            THEN [ok |-> TRUE, msg |-> [text |-> "Tidak ada bentrok jadwal"]]
            ELSE IF Bentrok(schedules[i], schedules[i + 1])
            THEN [ok |-> FALSE,
                  msg |-> [text |-> "Jadwal bentrok",
                           code1 |-> schedules[i].code,
                           code2 |-> schedules[i + 1].code,
                           day |-> schedules[i].day]]
            ELSE Scan(i + 1)
    IN  Scan(1)

\* Mutant of JadwalBentrokValidate: the outer loop runs over the second
\* entry of the pair, the inner loop over the first.
JadwalBentrokValidateBySecond(data) ==
    LET schedules == ParseSchedules(Get(data, "courses", <<>>))
        n == Len(schedules)
        RECURSIVE Scan(_, _)
        Scan(i, j) ==
            IF j > n
            THEN [ok |-> TRUE, msg |-> [text |-> "Tidak ada bentrok jadwal"]]
            ELSE IF i >= j THEN Scan(1, j + 1)
            ELSE IF Bentrok(schedules[i], schedules[j])
            THEN [ok |-> FALSE,
                  msg |-> [text |-> "Jadwal bentrok",
                           code1 |-> schedules[i].code,
                           code2 |-> schedules[j].code,
                           day |-> schedules[i].day]]
            ELSE Scan(i + 1, j)
    IN  Scan(1, 2)

\* JadwalBentrokRule.validate
JadwalBentrokValidate(data) ==
    LET schedules == ParseSchedules(Get(data, "courses", <<>>))
        n == Len(schedules)
        RECURSIVE Scan(_, _)
        Scan(i, j) ==
            IF i > n
            THEN [ok |-> TRUE, msg |-> [text |-> "Tidak ada bentrok jadwal"]]
            ELSE IF j > n THEN Scan(i + 1, i + 2)
            ELSE IF Bentrok(schedules[i], schedules[j])
            THEN [ok |-> FALSE,
                  msg |-> [text |-> "Jadwal bentrok",
                           code1 |-> schedules[i].code,
                           code2 |-> schedules[j].code,
                           day |-> schedules[i].day]]
            ELSE Scan(i, j + 1)
    IN  Scan(1, 2)

\* The rule objects a caller builds.
SksLimitRule(max_sks) == [class |-> "SksLimitRule", max_sks |-> max_sks]
PrerequisiteRule == [class |-> "PrerequisiteRule"]
JadwalBentrokRule == [class |-> "JadwalBentrokRule"]

\* rule.validate(data), dispatched on the rule's class.
Validate(rule, data) ==
    CASE rule.class = "SksLimitRule" -> SksLimitValidate(rule.max_sks, data)
      [] rule.class = "PrerequisiteRule" -> PrerequisiteValidate(data)
      [] rule.class = "JadwalBentrokRule" -> JadwalBentrokValidate(data)

(***************************************************************************)
(*                     RegistrationService and its inputs                  *)
(***************************************************************************)

\* Bounds of the inputs.
MaxRules == 3
MaxCourses == 3
MaxCompleted == 2
MaxSksLimit == 6

\* Day names and times of day, as Python strings.
Senin == <<"S", "e", "n", "i", "n">>
Rabu == <<"R", "a", "b", "u">>
Monday == <<"M", "o", "n", "d", "a", "y">>
T0800 == <<"0", "8", ":", "0", "0">>
T0930 == <<"0", "9", ":", "3", "0">>
T1000 == <<"1", "0", ":", "0", "0">>
T1130 == <<"1", "1", ":", "3", "0">>
T1200 == <<"1", "2", ":", "0", "0">>

\* "<Day> <HH:MM>-<HH:MM>"
Jadwal(day, start, end) == day \o <<" ">> \o start \o <<"-">> \o end

\* Schedules of the expected form.
GoodSchedules ==
    {Jadwal(Senin, T0800, T1000), Jadwal(Senin, T0930, T1130),
     Jadwal(Senin, T1000, T1200), Jadwal(Rabu, T0800, T1000)}

\* Schedules not of the expected form: no blank after the day, no hyphen,
\* a time that is not a number, times without the colon, a hyphen only in
\* the day part.
BadSchedules ==
    {Senin \o T0800 \o <<"-">> \o T1000,
     Senin \o <<" ">> \o T0800,
     Jadwal(Senin, <<"a", "b", ":", "c", "d">>, T1000),
     Jadwal(Senin, <<"0", "8", "0", "0">>, <<"1", "0", "0", "0">>),
     Senin \o <<"-">> \o T0800 \o <<" ">> \o T1000}

\* The codes of the courses a student takes, by position, and of the
\* courses that can be prerequisites.
CourseCodes == <<"MK201", "MK202", "MK203", "MK204", "MK205">>
PrereqCodes == {"MK101", "MK102"}

\* The optional keys of a course dict, family by family: the credits, the
\* prerequisite, a schedule of the expected form, any schedule text, a
\* schedule on Senin (<<>> is a dict with none of the keys).
SksAttrs == {<<>>} \cup {[sks |-> n] : n \in {0, 2, 3}}
PrereqAttrs ==
    {<<>>, [sks |-> 3, prerequisite |-> ""]}
        \cup {[sks |-> 3, prerequisite |-> c] : c \in PrereqCodes}
GoodScheduleAttrs == {<<>>} \cup {[schedule |-> j] : j \in GoodSchedules}
MixedScheduleAttrs ==
    {[schedule |-> <<>>], [schedule |-> Jadwal(Senin, T0800, T1000)],
     [schedule |-> Jadwal(Senin, T0930, T1130)]}
        \cup {[schedule |-> j] : j \in BadSchedules}
SeninAttrs ==
    {[schedule |-> Jadwal(Senin, T0800, T1000)],
     [schedule |-> Jadwal(Senin, T0930, T1130)],
     [schedule |-> Jadwal(Senin, T1000, T1200)]}

\* The course dicts with the given optional keys, coded by position.
Courses(attrs) ==
    [k \in 1..Len(attrs) |-> [code |-> CourseCodes[k]] @@ attrs[k]]

\* All course lists of at most MaxCourses courses with keys from A.
CourseLists(A) ==
    UNION {{Courses(a) : a \in [1..n -> A]} : n \in 0..MaxCourses}

\* All lists of completed courses, duplicates included.
CompletedLists ==
    UNION {[1..n -> {[code |-> c] : c \in PrereqCodes}] : n \in 0..MaxCompleted}

StudentData(completed, courses) ==
    [name |-> "Budi", completed_courses |-> completed, courses |-> courses]

SksRecords == {StudentData(<<>>, cs) : cs \in CourseLists(SksAttrs)}
PrereqRecords ==
    {StudentData(done, cs) : done \in CompletedLists,
                             cs \in CourseLists(PrereqAttrs)}
        \cup {[name |-> "Budi", courses |-> cs] : cs \in CourseLists(PrereqAttrs)}
ScheduleRecords ==
    {StudentData(<<>>, cs) : cs \in CourseLists(GoodScheduleAttrs)}
MixedScheduleRecords ==
    {StudentData(<<>>, cs) : cs \in CourseLists(MixedScheduleAttrs)}

\* One course more than MaxCourses, all on the same day.
LongScheduleRecords ==
    {StudentData(<<>>, Courses(a)) : a \in [1..(MaxCourses + 1) -> SeninAttrs]}

\* The demo's student (lines 171-182).
Mahasiswa ==
    StudentData(
        <<[code |-> "MK101"], [code |-> "MK102"]>>,
        <<[code |-> "MK201", sks |-> 3, prerequisite |-> "MK101",
           schedule |-> Jadwal(Senin, T0800, T1000)],
          [code |-> "MK202", sks |-> 3, prerequisite |-> "MK102",
           schedule |-> Jadwal(Senin, T0930, T1130)],
          [code |-> "MK203", sks |-> 2]>>)

\* The two-course record of the end-to-end scenario, on Monday.
MondayRecord ==
    StudentData(
        <<[code |-> "MK101"], [code |-> "MK102"]>>,
        <<[code |-> "MK201", sks |-> 3, prerequisite |-> "MK101",
           schedule |-> Jadwal(Monday, T0800, T1000)],
          [code |-> "MK202", sks |-> 3, prerequisite |-> "MK102",
           schedule |-> Jadwal(Monday, T0930, T1130)]>>)

\* Variants of the demo's student: one completed course fewer, the second
\* course moved to a free slot, no data at all.
DemoRecords ==
    {Mahasiswa, MondayRecord,
     [Mahasiswa EXCEPT !.completed_courses = <<[code |-> "MK101"]>>],
     [Mahasiswa EXCEPT !.courses[2].schedule = Jadwal(Senin, T1000, T1200)],
     [MondayRecord EXCEPT !.courses[2].schedule = Jadwal(Rabu, T0930, T1130)],
     [name |-> "Budi"]}

\* SksLimitRule's limits: small ones, the demo's 20 and the default 24.
SksRules == {SksLimitRule(m) : m \in (0..MaxSksLimit) \cup {20, 24}}
AllRules == SksRules \cup {PrerequisiteRule, JadwalBentrokRule}

\* The rule lists of the demo (lines 185 and 190).
RulesDasar == <<SksLimitRule(20), PrerequisiteRule>>
RulesLengkap == <<SksLimitRule(20), PrerequisiteRule, JadwalBentrokRule>>

\* The rules the lists under check are made of.
RulePool ==
    {SksLimitRule(20), SksLimitRule(6), PrerequisiteRule, JadwalBentrokRule}
RuleLists == UNION {[1..n -> RulePool] : n \in 0..MaxRules}

\* validate_registration has been called and stands before its loop.
RegStart ==
    /\ rpc = "loop"
    /\ idx = 1
    /\ outcome = None
    /\ evaluated = <<>>
    /\ log = <<>>
    /\ result = None

\* Lines 160-161: the next rule of self.rules is asked.
EvaluateRule ==
    /\ rpc = "loop"
    /\ idx <= Len(rules)
    /\ outcome' = Validate(rules[idx], student_data)
    /\ evaluated' = Append(evaluated, idx)
    /\ rpc' = "check"
    /\ UNCHANGED <<rules, student_data, idx, log, result>>
    /\ UNCHANGED checkoutVars

\* Mutant of FailFast: the warning is logged but the loop goes on.
FailFastContinues ==
    /\ rpc = "check"
    /\ ~outcome.ok
    /\ log' = Append(log, [level |-> "warning", message |-> outcome.msg])
    /\ idx' = idx + 1
    /\ rpc' = "loop"
    /\ UNCHANGED <<rules, student_data, outcome, evaluated, result>>
    /\ UNCHANGED checkoutVars

\* Lines 162-164: the rule failed; warn and return False.
FailFast ==
    /\ rpc = "check"
    /\ ~outcome.ok
    /\ log' = Append(log, [level |-> "warning", message |-> outcome.msg])
    /\ result' = FALSE
    /\ rpc' = "done"
    /\ UNCHANGED <<rules, student_data, idx, outcome, evaluated>>
    /\ UNCHANGED checkoutVars

\* Line 162, the rule passed: on to the next one.
NextRule ==
    /\ rpc = "check"
    /\ outcome.ok
    /\ idx' = idx + 1
    /\ rpc' = "loop"
    /\ UNCHANGED <<rules, student_data, outcome, evaluated, log, result>>
    /\ UNCHANGED checkoutVars

\* Lines 165-166: the loop ran out; report success and return True.
Succeed ==
    /\ rpc = "loop"
    /\ idx > Len(rules)
    /\ log' = Append(log, [level |-> "info",
                           message |-> [text |-> "Registrasi berhasil"]])
    /\ result' = TRUE
    /\ rpc' = "done"
    /\ UNCHANGED <<rules, student_data, idx, outcome, evaluated>>
    /\ UNCHANGED checkoutVars

NextRegistration ==
    \/ EvaluateRule
    \/ FailFast
    \/ NextRule
    \/ Succeed

\* The checkout side at rest.
CheckoutIdle ==
    /\ order = Order("Andi", 500000)
    /\ processor = "CreditCardProcessor"
    /\ pc = "idle"
    /\ payment_success = FALSE
    /\ ret = None
    /\ events = <<>>
    /\ orderAtStart = order
    /\ invocations = 0

\* A service built with any rule list, called on a demo record.
InitRegistration ==
    /\ rules \in RuleLists
    /\ student_data \in DemoRecords
    /\ RegStart
    /\ CheckoutIdle

SpecRegistration == InitRegistration /\ [][NextRegistration]_vars

\* A service built with a single rule, called on a record of the family
\* that rule reads, or on a demo record.
InitRule ==
    /\ \/ rules \in {<<r>> : r \in SksRules} /\ student_data \in SksRecords
       \/ rules = <<PrerequisiteRule>> /\ student_data \in PrereqRecords
       \/ rules = <<JadwalBentrokRule>> /\ student_data \in ScheduleRecords
       \/ rules = <<JadwalBentrokRule>> /\ student_data \in MixedScheduleRecords
       \/ rules = <<JadwalBentrokRule>> /\ student_data \in LongScheduleRecords
       \/ rules \in {<<r>> : r \in AllRules} /\ student_data \in DemoRecords
    /\ RegStart
    /\ CheckoutIdle

SpecRule == InitRule /\ [][NextRegistration]_vars

(***************************************************************************)
(*                    claims on validate_registration                      *)
(***************************************************************************)

\* The positions of the rules of the list that fail on the data.
FailingRules ==
    {i \in 1..Len(rules) : ~Validate(rules[i], student_data).ok}

\* The least element of a non-empty set of numbers.
Least(S) == CHOOSE i \in S : \A j \in S : i <= j

\* C1: validate_registration asks the rules in list order, each at most
\* once; it returns False iff some rule of the list fails on the data, and
\* then exactly the rules up to the first failing one were asked; if no
\* rule fails (the empty list included) every rule was asked once and it
\* returns True.
C1_FailFastInOrder ==
    /\ evaluated = [i \in 1..Len(evaluated) |-> i]
    /\ rpc = "done" =>
          IF FailingRules = {}
          THEN result = TRUE /\ Len(evaluated) = Len(rules)
          ELSE result = FALSE /\ Len(evaluated) = Least(FailingRules)

\* C1 witness: a list of three rules whose second rule is the first to
\* fail and whose third would fail too has returned: two rules were asked.
C1_Witness ==
    /\ rpc = "done"
    /\ Len(rules) = 3
    /\ FailingRules = {2, 3}
    /\ result = FALSE
    /\ evaluated = <<1, 2>>

\* The message JadwalBentrokRule gives for the two Monday courses.
MondayConflict ==
    [text |-> "Jadwal bentrok", code1 |-> "MK201", code2 |-> "MK202",
     day |-> Monday]

\* C9: on the two-course Monday record with the list [SksLimitRule(20),
\* PrerequisiteRule, JadwalBentrokRule], the first two rules pass, the
\* third fails naming both courses and Monday, and validate_registration
\* returns False having asked exactly the three rules.
C9_EndToEnd ==
    (rules = RulesLengkap /\ student_data = MondayRecord) =>
        /\ (rpc = "check" /\ idx \in {1, 2}) => outcome.ok
        /\ (rpc = "check" /\ idx = 3) =>
              ~outcome.ok /\ outcome.msg = MondayConflict
        /\ rpc = "done" =>
              /\ result = FALSE
              /\ evaluated = <<1, 2, 3>>
              /\ log = <<[level |-> "warning", message |-> MondayConflict]>>

\* C9 witness: that call has returned.
C9_Witness ==
    /\ rules = RulesLengkap
    /\ student_data = MondayRecord
    /\ rpc = "done"
    /\ Len(evaluated) = 3

(***************************************************************************)
(*                         claims on the rules                             *)
(***************************************************************************)

\* The rule under check has just been asked: `outcome` is its answer.
Asked(class) == rpc = "check" /\ rules[idx].class = class

\* The courses of the record under check.
TheCourses == Get(student_data, "courses", <<>>)

\* The sum of the credits of the courses at the positions in S; a course
\* without credits counts for none.
RECURSIVE CreditSum(_, _)
CreditSum(courses, S) ==
    IF S = {} THEN 0
    ELSE LET k == CHOOSE i \in S : TRUE
         IN  (IF "sks" \in DOMAIN courses[k] THEN courses[k].sks ELSE 0)
                 + CreditSum(courses, S \ {k})

TotalCredits == CreditSum(TheCourses, DOMAIN TheCourses)

\* C4: SksLimitRule(max) passes iff the sum of the credits of all courses
\* is at most max: a sum of max passes, a sum of max + 1 fails, and a
\* record with no courses passes.
C4_SksLimit ==
    Asked("SksLimitRule") =>
        LET max == rules[idx].max_sks
        IN  /\ outcome.ok <=> TotalCredits <= max
            /\ TotalCredits = max => outcome.ok
            /\ TotalCredits = max + 1 => ~outcome.ok
            /\ TheCourses = <<>> => outcome.ok

\* C4 witness: three courses whose credits sum to one more than the limit
\* have been refused, with the sum and the limit in the message.
C4_Witness ==
    /\ Asked("SksLimitRule")
    /\ Len(TheCourses) = 3
    /\ TotalCredits = rules[idx].max_sks + 1
    /\ ~outcome.ok
    /\ outcome.msg.total_sks = TotalCredits

\* The course names a prerequisite (a non-empty code).
HasPrerequisite(course) ==
    /\ "prerequisite" \in DOMAIN course
    /\ course.prerequisite \notin {"", None}

\* The codes of the completed courses of a record.
CompletedCodes(data) ==
    IF "completed_courses" \in DOMAIN data
    THEN {data.completed_courses[i].code :
              i \in DOMAIN data.completed_courses}
    ELSE {}

\* The positions of the courses whose prerequisite is not completed.
MissingPrerequisites ==
    {k \in DOMAIN TheCourses :
        /\ HasPrerequisite(TheCourses[k])
        /\ TheCourses[k].prerequisite \notin CompletedCodes(student_data)}

\* The record without code c among its completed courses.
WithoutCompleted(data, c) ==
    [data EXCEPT !.completed_courses = SelectSeq(@, LAMBDA e : e.code # c)]

\* C5: PrerequisiteRule passes iff every course that names a prerequisite
\* has it among the completed courses; when it fails it reports the
\* prerequisite and the code of the first such course in the list; and a
\* passing record fails once the completed course that some course of it
\* requires is taken out.
C5_Prerequisite ==
    Asked("PrerequisiteRule") =>
        /\ outcome.ok <=> MissingPrerequisites = {}
        /\ ~outcome.ok =>
              LET k == Least(MissingPrerequisites)
              IN  /\ outcome.msg.prereq = TheCourses[k].prerequisite
                  /\ outcome.msg.code = TheCourses[k].code
        /\ outcome.ok =>
              \A k \in DOMAIN TheCourses :
                  HasPrerequisite(TheCourses[k]) =>
                      ~Validate(rules[idx],
                                WithoutCompleted(student_data,
                                    TheCourses[k].prerequisite)).ok

\* C5 witness: the first course's prerequisite is completed, those of the
\* second and third are not, and the rule has reported the second.
C5_Witness ==
    /\ Asked("PrerequisiteRule")
    /\ MissingPrerequisites = {2, 3}
    /\ HasPrerequisite(TheCourses[1])
    /\ ~outcome.ok
    /\ outcome.msg.code = TheCourses[2].code

\* The course has a schedule text (a key with a non-empty string).
HasSchedule(course) ==
    "schedule" \in DOMAIN course /\ course.schedule # <<>>

\* The text is "<Day> <HH:MM>-<HH:MM>": the last twelve characters are a
\* blank and the two times, before them stands a day without blank or
\* hyphen.
WellFormed(t) ==
    /\ Len(t) > 12
    /\ LET d == Len(t) - 12
       IN  /\ \A i \in 1..d : t[i] \notin {" ", "-"}
           /\ t[d + 1] = " "
           /\ \A i \in {2, 3, 5, 6, 8, 9, 11, 12} : IsDigit(t[d + i])
           /\ t[d + 4] = ":"
           /\ t[d + 7] = "-"
           /\ t[d + 10] = ":"

\* Of a well-formed text: the day, and the minutes since midnight of the
\* time whose first digit is k characters after the day.
DayOf(t) == SubSeq(t, 1, Len(t) - 12)
MinuteOf(t, k) ==
    LET d == Len(t) - 12
    IN  (10 * DigitVal(t[d + k]) + DigitVal(t[d + k + 1])) * 60
            + 10 * DigitVal(t[d + k + 3]) + DigitVal(t[d + k + 4])
StartOf(t) == MinuteOf(t, 2)
EndOf(t) == MinuteOf(t, 8)

\* Two well-formed texts on one day whose half-open intervals overlap.
Overlap(t, u) ==
    /\ DayOf(t) = DayOf(u)
    /\ StartOf(t) < EndOf(u)
    /\ StartOf(u) < EndOf(t)

\* Every schedule of the record is of the expected form.
AllWellFormed ==
    \A k \in DOMAIN TheCourses :
        HasSchedule(TheCourses[k]) => WellFormed(TheCourses[k].schedule)

\* The pairs of courses of the record that overlap.
OverlappingCourses ==
    {p \in (DOMAIN TheCourses) \X (DOMAIN TheCourses) :
        /\ p[1] < p[2]
        /\ HasSchedule(TheCourses[p[1]])
        /\ HasSchedule(TheCourses[p[2]])
        /\ Overlap(TheCourses[p[1]].schedule, TheCourses[p[2]].schedule)}

\* The schedules of the courses of the record, in order.
ScheduleTexts ==
    [k \in DOMAIN TheCourses |-> Get(TheCourses[k], "schedule", <<>>)]

\* C6: on a record whose schedules are all well-formed JadwalBentrokRule
\* fails iff two distinct courses are on the same day with overlapping
\* half-open intervals: 08:00-10:00 and 09:30-11:30 on one day conflict,
\* 08:00-10:00 and 10:00-12:00 do not, and courses on different days do
\* not conflict whatever their times.
C6_ScheduleConflict ==
    (Asked("JadwalBentrokRule") /\ AllWellFormed) =>
        /\ ~outcome.ok <=> OverlappingCourses # {}
        /\ ScheduleTexts = <<Jadwal(Senin, T0800, T1000),
                             Jadwal(Senin, T0930, T1130)>> => ~outcome.ok
        /\ ScheduleTexts = <<Jadwal(Senin, T0800, T1000),
                             Jadwal(Senin, T1000, T1200)>> => outcome.ok
        /\ (\A p \in (DOMAIN TheCourses) \X (DOMAIN TheCourses) :
               (p[1] # p[2] /\ HasSchedule(TheCourses[p[1]])
                           /\ HasSchedule(TheCourses[p[2]]))
                   => DayOf(TheCourses[p[1]].schedule)
                          # DayOf(TheCourses[p[2]].schedule))
              => outcome.ok

\* C6 witness: of three well-formed courses the first is on another day
\* and the other two overlap; the rule has reported those two.
C6_Witness ==
    /\ Asked("JadwalBentrokRule")
    /\ AllWellFormed
    /\ OverlappingCourses = {<<2, 3>>}
    /\ HasSchedule(TheCourses[1])
    /\ ~outcome.ok
    /\ outcome.msg.code1 = TheCourses[2].code
    /\ outcome.msg.code2 = TheCourses[3].code

\* The course without its schedule key.
Unscheduled(course) ==
    [f \in (DOMAIN course) \ {"schedule"} |-> course[f]]

\* The record with the schedule of its k-th course removed.
WithoutSchedule(data, k) ==
    [data EXCEPT !.courses[k] = Unscheduled(@)]

\* C7: a course whose schedule text is not of the form
\* "<Day> <HH:MM>-<HH:MM>" is skipped by JadwalBentrokRule: it is never
\* named in a reported conflict and the outcome is that of the record with
\* this course's schedule removed.
C7_MalformedSkipped ==
    Asked("JadwalBentrokRule") =>
        \A k \in DOMAIN TheCourses :
            (HasSchedule(TheCourses[k])
                 /\ ~WellFormed(TheCourses[k].schedule)) =>
                /\ outcome = Validate(rules[idx],
                                      WithoutSchedule(student_data, k))
                /\ ~outcome.ok =>
                      TheCourses[k].code
                          \notin {outcome.msg.code1, outcome.msg.code2}

\* The pairs i < j of entries of the code's `schedules` list that the code
\* finds in conflict.
ConflictPairs ==
    LET schedules == ParseSchedules(TheCourses)
    IN  {p \in (DOMAIN schedules) \X (DOMAIN schedules) :
            p[1] < p[2] /\ Bentrok(schedules[p[1]], schedules[p[2]])}

\* Pair p comes before pair q in the lexicographic order.
LexLess(p, q) == p[1] < q[1] \/ (p[1] = q[1] /\ p[2] <= q[2])

\* C10: when JadwalBentrokRule fails, the pair it reports is the
\* lexicographically least pair (i, j), i < j, of conflicting entries of
\* the parsed schedule list, the code at i first and the code at j second.
C10_FirstPairReported ==
    (Asked("JadwalBentrokRule") /\ ~outcome.ok) =>
        LET schedules == ParseSchedules(TheCourses)
            first == CHOOSE p \in ConflictPairs :
                         \A q \in ConflictPairs : LexLess(p, q)
        IN  /\ ConflictPairs # {}
            /\ outcome.msg.code1 = schedules[first[1]].code
            /\ outcome.msg.code2 = schedules[first[2]].code
            /\ outcome.msg.day = schedules[first[1]].day

\* C10 witness: four entries of which (1, 4) and (2, 3) conflict and no
\* pair before them does; the rule has reported (1, 4).
C10_Witness ==
    /\ Asked("JadwalBentrokRule")
    /\ ConflictPairs = {<<1, 4>>, <<2, 3>>}
    /\ ~outcome.ok
    /\ outcome.msg.code1 = TheCourses[1].code
    /\ outcome.msg.code2 = TheCourses[4].code

\* The record with its courses rearranged by the permutation p.
Rearranged(data, p) ==
    [data EXCEPT !.courses = [i \in DOMAIN @ |-> @[p[i]]]]

\* C8: whether a rule passes does not change when the courses of the
\* record are put in another order.
C8_OrderIrrelevant ==
    (rpc = "check" /\ "courses" \in DOMAIN student_data) =>
        \A p \in Permutations(DOMAIN TheCourses) :
            Validate(rules[idx], Rearranged(student_data, p)).ok = outcome.ok

\* C8 witness: of three scheduled courses only the first and the last
\* conflict, and the schedule rule has failed.
C8_Witness ==
    /\ Asked("JadwalBentrokRule")
    /\ Len(TheCourses) = 3
    /\ ConflictPairs = {<<1, 3>>}
    /\ ~outcome.ok

=============================================================================
